---- MODULE Spec2Model ----
(***************************************************************************)
(* A model of python-web-scraper.                                          *)
(*                                                                         *)
(* The request-admission controller: rate_limiter.RateLimiter (token       *)
(* bucket plus minute and hour windows) used by several threads, and       *)
(* rate_limiter.DomainRateLimiter, the registry that keeps one RateLimiter *)
(* per domain.  Time is in seconds.  Tokens are kept in fixed point: One   *)
(* units are one token, and requests_per_second is given in units per      *)
(* second, so that the float arithmetic of the source is exact integer     *)
(* arithmetic here.  The clock is read once per critical section: the few  *)
(* microseconds between the time.time() and datetime.now() calls of one    *)
(* acquire are not modelled.                                               *)
(*                                                                         *)
(* The fetching pipeline: fetcher.check_robots_txt and fetcher.fetch_html  *)
(* with their robots.txt cache and retry loop, and scraper.run, called one *)
(* after the other.  The network, the parser and the exporter are the      *)
(* environment: each request, robots.txt download and export has one of    *)
(* the outcomes the code distinguishes.                                    *)
(*                                                                         *)
(* async_scraper.AsyncScraper: the fetch tasks of one scraper, which share *)
(* its semaphore and are interleaved at their await points.                *)
(***************************************************************************)
EXTENDS Integers, Sequences, FiniteSets, TLC

\* ------------------------------------------------------------------ bounds

\* The calling threads.
Threads == {1, 2}

\* How many calls (acquire, get_stats, reset) are made in one behaviour.
MaxCalls == 3

\* The instants the clock may jump to while nobody is being woken; besides
\* these it stops at every wake-up time of a sleeping caller.
Instants == {30, 60, 3600, 3630}

\* One token, in units (rate_limiter.py compares with and subtracts 1).
One == 60

\* The window lengths of the source, in seconds.
Minute == 60
Hour == 3600

\* The configurations a limiter is constructed with.  requests_per_second is
\* in units per second: 1 is 1/60 request per second.
Configs ==
    [ requests_per_second : {0, 1},
      requests_per_minute : {0, 1, 2},
      requests_per_hour   : {0, 1, 2},
      burst_size          : {0, 1, 2},
      min_delay           : {0, 30} ]

\* The threads that call the DomainRateLimiter.
RegThreads == {1, 2, 3}

\* How many registry calls (acquire, get_stats) are made in one behaviour.
MaxRegCalls == 3

\* Strings are sequences of lexical pieces: a scheme with its colon, the
\* "//" that introduces the network location, a host, a path.
Schemes == {"https:"}
Hosts == {"a.com", "b.com"}

\* The URLs given to DomainRateLimiter.acquire: two pages of one site and a
\* page of another site.
Urls ==
    { << "https:", "//", "a.com", "/p1" >>,
      << "https:", "//", "a.com", "/p2" >>,
      << "https:", "//", "b.com", "/" >> }

\* An argument that is a string s, and the argument None.
Str(s) == [s |-> s, none |-> FALSE]
None == [s |-> << >>, none |-> TRUE]

\* The strings given to DomainRateLimiter.get_stats as its domain (besides
\* None): the empty string, a domain, and a URL.
StatsDomains ==
    { << >>, << "a.com" >>, << "https:", "//", "a.com", "/p1" >> }

\* The default_config values a registry is constructed with.
RegistryConfigs ==
    { c \in Configs : /\ c.requests_per_minute = 2
                      /\ c.requests_per_hour = 2
                      /\ c.burst_size = 1
                      /\ c.min_delay > 0 <=> c.requests_per_second = 0 }

\* How many calls (check_robots_txt, fetch_html, run) are made in one
\* behaviour of the fetching pipeline.
MaxFetchCalls == 3

\* The retries argument of fetch_html, and its default.
DefaultRetries == 3
RetryCounts == {0, 1, 2, DefaultRetries}

\* What a robots.txt may hold: the paths it disallows for the user agent.
Paths == {"/p1", "/p2", "/"}
RobotsRules == { {}, {"/p1"}, Paths }

\* What one requests.get may do: answer with a status, or raise.  The pair
\* is << kind, status >>; the status of an exception is 0.
Statuses == {200, 399, 400, 499, 500}
GetOutcomes ==
    { << "response", st >> : st \in Statuses }
       \cup { << "Timeout", 0 >>, << "ConnectionError", 0 >>,
              << "RequestException", 0 >> }

\* The bodies a response may carry: nothing, a page without items, a page
\* with one item.
Texts == {"", "<p>", "<div class=item>"}

\* What DataExporter(output).export(...) may do: return a path, return None,
\* or not come to be called because the constructor raised.
ExportOutcomes == {"path", "None", "raise"}

\* The fetch tasks one AsyncScraper runs concurrently (one per URL).
Tasks == {1, 2, 3}

\* The max_concurrent values an AsyncScraper is constructed with.
MaxConcurrents == {1, 2}

\* The largest retries value an AsyncScraper is constructed with.
MaxAsyncRetries == 2

\* What one session.get (with response.text()) may do: answer with a status,
\* or raise.  The status of an exception is 0.
AsyncOutcomes ==
    { << "response", 200 >>, << "response", 404 >>, << "response", 500 >>,
      << "TimeoutError", 0 >>, << "Exception", 0 >> }

\* ------------------------------------------------------------------- state

VARIABLES
    config,          \* RateLimiter.config
    tokens,          \* RateLimiter.tokens, in units
    last_refill,     \* RateLimiter.last_refill
    requests_minute, \* RateLimiter.requests_minute, oldest first
    requests_hour,   \* RateLimiter.requests_hour, oldest first
    total_requests,  \* RateLimiter.total_requests
    total_wait_time, \* RateLimiter.total_wait_time
    rejections,      \* RateLimiter.rejections
    lock,            \* RateLimiter.lock: 0 when free, else the holding thread
    now,             \* the clock
    pc,              \* per thread: "idle", "enter" (called, wants the lock), "sleep"
    op,              \* per thread: the operation of its current call
    blocking,        \* per thread: the wait argument of its acquire
    local,           \* per thread: wait_time and the tokens seen by its decision
    wakeAt,          \* per thread: when its time.sleep may return
    ret,             \* per thread: what its last call returned or raised
    snap,            \* per thread: the dict its get_stats returned
    ncalls,          \* history: calls made so far
    nresets,         \* history: reset() calls completed so far
    log,             \* history: one record per finished acquire
    raced,           \* history: reset() was called while a caller slept
    limiters,        \* DomainRateLimiter.limiters: domain -> index in instances
    instances,       \* every RateLimiter the registry has constructed
    registry_lock,   \* DomainRateLimiter.lock: 0 when free, else the holder
    caller,          \* per registry thread: its call and how far it has got
    returned,        \* the registry call that returned last, and its result
    nregcalls,       \* history: registry calls made so far
    served,          \* history: << url, instance >> of every delegated acquire
    robots_cache,    \* fetcher._robots_cache: base -> the rules read for it
    robots_reads,    \* history: per base, how often robots.txt was fetched
    fetch_pc,        \* "idle", "robots", "get", "backoff", "parse", "export"
    fetch_fn,        \* the function called: check_robots_txt, fetch_html, run
    fetch_url,       \* its url argument
    fetch_retries,   \* the retries argument of fetch_html
    respect_robots,  \* the respect_robots argument of fetch_html
    attempt,         \* the loop variable of fetch_html
    gets,            \* history: the outcome of every requests.get of the call
    robots_answer,   \* history: what check_robots_txt told this fetch_html
    html,            \* run's local html
    stages,          \* history: the stages run has started in this call
    result,          \* what the last call returned
    nfetchcalls,     \* history: pipeline calls made so far
    constructed,     \* an AsyncScraper has been constructed
    max_concurrent,  \* AsyncScraper.max_concurrent
    retries,         \* AsyncScraper.retries
    semaphore,       \* AsyncScraper.semaphore: its value (free slots)
    task_pc,         \* per task: "none", "start", "request", "delay",
                     \*           "backoff", "done"
    task_attempt,    \* per task: the loop variable of fetch
    task_gets,       \* history, per task: session.get calls issued
    task_last,       \* history, per task: the outcome of its last get
    task_result,     \* per task: "none", or the success field of its result
    in_semaphore     \* per task: it is inside "async with self.semaphore"

\* The state of the DomainRateLimiter and of its callers.
regVars == << limiters, instances, registry_lock, caller, returned, nregcalls,
             served >>

\* The state of the AsyncScraper and of its fetch tasks.
asyncVars == << constructed, max_concurrent, retries, semaphore, task_pc,
               task_attempt, task_gets, task_last, task_result, in_semaphore >>

\* The state of the fetching pipeline (fetcher.py, scraper.py).
fetchVars == << robots_cache, robots_reads, fetch_pc, fetch_fn, fetch_url,
               fetch_retries, respect_robots, attempt, gets, robots_answer,
               html, stages, result, nfetchcalls >>

\* The state of the single RateLimiter's callers, and its history.
callerVars == << lock, pc, op, blocking, local, wakeAt, ret, snap, ncalls,
                nresets, log, raced >>

vars == << config, tokens, last_refill, requests_minute, requests_hour,
           total_requests, total_wait_time, rejections, lock, now, pc, op,
           blocking, local, wakeAt, ret, snap, ncalls, nresets, log, raced,
           regVars, fetchVars, asyncVars >>

limiterVars == << tokens, last_refill, requests_minute, requests_hour,
                  total_requests, total_wait_time, rejections >>

\* ----------------------------------------------------------------- helpers

Min(a, b) == IF a <= b THEN a ELSE b

Max(a, b) == IF a >= b THEN a ELSE b

\* An append to a deque that has no maxlen.
DequeAppendUnbounded(q, x, maxlen) == Append(q, x)

\* collections.deque(maxlen=n).append(x): a full deque drops its oldest entry.
DequeAppend(q, x, maxlen) ==
    IF maxlen = 0 THEN << >>
    ELSE IF Len(q) >= maxlen THEN Append(Tail(q), x)
    ELSE Append(q, x)

\* A refill that forgets the cap at max_tokens.
RefillTokensUncapped(tok, last, t, c) ==
    tok + (t - last) * c.requests_per_second

\* _refill_tokens: the token count after a refill at time t.
RefillTokens(tok, last, t, c) ==
    Min(c.burst_size * One, tok + (t - last) * c.requests_per_second)

\* An eviction that drops nothing.
CleanOldNothing(q, t, span) == q

\* _clean_old_requests, one window: drop the leading entries older than span.
RECURSIVE CleanOld(_, _, _)
CleanOld(q, t, span) ==
    IF Len(q) > 0 /\ t - q[1] > span THEN CleanOld(Tail(q), t, span) ELSE q

\* A token branch that divides the tokens held, not the tokens needed.
TokenWaitOfHeld(tok, c) ==
    IF tok < One THEN tok \div c.requests_per_second ELSE 0

\* _calculate_wait_time, the token bucket branch (rate > 0).
TokenWait(tok, c) ==
    IF tok < One THEN (One - tok) \div c.requests_per_second ELSE 0

\* A window branch that never asks for a wait.
WindowWaitNone(q, t, limit, span) == 0

\* A window branch that waits only once the window is over its limit.
WindowWaitOverLimit(q, t, limit, span) ==
    IF Len(q) > limit /\ t - q[1] < span THEN span - (t - q[1]) ELSE 0

\* _calculate_wait_time, one window's branch (the window is not empty).
WindowWait(q, t, limit, span) ==
    IF Len(q) >= limit /\ t - q[1] < span THEN span - (t - q[1]) ELSE 0

\* What _calculate_wait_time raises, in the order the source evaluates.
CalcRaises(tok, rm, rh, c) ==
    IF tok < One /\ c.requests_per_second = 0 THEN "ZeroDivisionError"
    ELSE IF Len(rm) >= c.requests_per_minute /\ Len(rm) = 0 THEN "IndexError"
    ELSE IF Len(rh) >= c.requests_per_hour /\ Len(rh) = 0 THEN "IndexError"
    ELSE "none"

\* A wait time without the min_delay floor.
CalcWaitNoFloor(tok, rm, rh, t, c) ==
    Max(Max(TokenWait(tok, c),
            WindowWait(rm, t, c.requests_per_minute, Minute)),
        WindowWait(rh, t, c.requests_per_hour, Hour))

\* A wait time that adds the four bounds up.
CalcWaitSum(tok, rm, rh, t, c) ==
    TokenWait(tok, c) + WindowWait(rm, t, c.requests_per_minute, Minute)
        + WindowWait(rh, t, c.requests_per_hour, Hour) + c.min_delay

\* _calculate_wait_time when it raises nothing: the maximum of the four bounds.
CalcWait(tok, rm, rh, t, c) ==
    Max(Max(Max(TokenWait(tok, c),
                WindowWait(rm, t, c.requests_per_minute, Minute)),
            WindowWait(rh, t, c.requests_per_hour, Hour)),
        c.min_delay)

\* The state acquire decides on: after _refill_tokens and _clean_old_requests.
Refilled == RefillTokens(tokens, last_refill, now, config)
CleanMinute == CleanOld(requests_minute, now, Minute)
CleanHour == CleanOld(requests_hour, now, Hour)
Raises == CalcRaises(Refilled, CleanMinute, CleanHour, config)
WaitTime == CalcWait(Refilled, CleanMinute, CleanHour, now, config)

NoLocal == [tok |-> 0, w |-> 0]

\* No get_stats result: the thread's last call was not get_stats.
NoSnapshot ==
    [ total_requests       |-> 0,
      total_wait_time      |-> 0,
      rejections           |-> 0,
      avg_wait_time        |-> << 0, 1 >>,
      requests_last_minute |-> 0,
      requests_last_hour   |-> 0,
      current_tokens       |-> 0 ]

\* DomainRateLimiter._get_domain, urllib.parse.urlparse(url).netloc: the host
\* that follows "//" after the optional scheme, and the empty string when
\* there is no "//".
GetDomain(url) ==
    LET rest == IF Len(url) >= 1 /\ url[1] \in Schemes THEN Tail(url) ELSE url
    IN  IF Len(rest) >= 2 /\ rest[1] = "//" /\ rest[2] \in Hosts
        THEN << rest[2] >>
        ELSE << >>

\* urllib.parse.urlparse(url).scheme, kept with its colon: the empty string
\* when the url does not start with a scheme.
GetScheme(url) ==
    IF Len(url) >= 1 /\ url[1] \in Schemes THEN << url[1] >> ELSE << >>

\* urllib.parse.urlparse(url).path: what follows the network location.
GetPath(url) ==
    LET rest == IF Len(url) >= 1 /\ url[1] \in Schemes THEN Tail(url) ELSE url
    IN  IF Len(rest) >= 2 /\ rest[1] = "//" /\ rest[2] \in Hosts
        THEN SubSeq(rest, 3, Len(rest))
        ELSE rest

\* The key of fetcher._robots_cache: f"{parsed.scheme}://{parsed.netloc}".
Base(url) == GetScheme(url) \o << "//" >> \o GetDomain(url)

Bases == { Base(u) : u \in Urls }

\* RobotFileParser.can_fetch of a parser that has read rules: the url is
\* allowed unless its path is one the rules disallow.
CanFetch(rules, url) == \A p \in rules : GetPath(url) # << p >>

\* parse_items(html) with the default selectors, as the number of items.
ParseItems(text) == IF text = "<div class=item>" THEN 1 ELSE 0

\* Python's truth value of an Optional[str]: None and "" are false.
NotHtml(text) == text = "None" \/ text = ""

\* RateLimiter(config), constructed at time t.
NewLimiter(c, t) ==
    [ tokens          |-> c.burst_size * One,
      last_refill     |-> t,
      requests_minute |-> << >>,
      requests_hour   |-> << >>,
      total_requests  |-> 0,
      total_wait_time |-> 0,
      rejections      |-> 0,
      lock            |-> 0 ]

\* RateLimiter.get_stats of the instance l.
InstanceStats(l) ==
    [ total_requests       |-> l.total_requests,
      total_wait_time      |-> l.total_wait_time,
      rejections           |-> l.rejections,
      avg_wait_time        |->
          IF l.total_requests > 0
          THEN << l.total_wait_time, l.total_requests >>
          ELSE << 0, 1 >>,
      requests_last_minute |-> Len(l.requests_minute),
      requests_last_hour   |-> Len(l.requests_hour),
      current_tokens       |-> l.tokens ]

\* One item of DomainRateLimiter.get_stats' dict: the stats of a limiter, or
\* the string "No stats available" (nodata).
StatsItem(k, l) == [key |-> k, nodata |-> FALSE, stats |-> InstanceStats(l)]
NoStatsItem(k) == [key |-> k, nodata |-> TRUE, stats |-> NoSnapshot]

\* A registry thread that is in no call.
Idle ==
    [ pc   |-> "idle",   \* "lock", "delegate", "sleep", "visit"
      op   |-> "none",
      w    |-> 0,        \* the wait_time of the acquire the thread sleeps in
      arg  |-> None,     \* the url of acquire, the domain of get_stats
      wait |-> FALSE,
      id   |-> 0,        \* the instance whose acquire the thread sleeps in
      wake |-> 0,
      out  |-> {},       \* the items of the dict get_stats is building
      todo |-> << >> ]   \* the domains get_stats has still to visit

\* No registry call has returned yet.
NoReturn == [op |-> "none", ret |-> "none", arg |-> None, out |-> {}]

LogEntry(t, w, tok, r) ==
    [b |-> blocking[t], tok |-> tok, w |-> w, r |-> r, at |-> now]

\* -------------------------------------------------------------------- Init

Init ==
    /\ config \in Configs
    /\ tokens = config.burst_size * One
    /\ last_refill = 0
    /\ requests_minute = << >>
    /\ requests_hour = << >>
    /\ total_requests = 0
    /\ total_wait_time = 0
    /\ rejections = 0
    /\ lock = 0
    /\ now = 0
    /\ pc = [t \in Threads |-> "idle"]
    /\ op = [t \in Threads |-> "none"]
    /\ blocking = [t \in Threads |-> FALSE]
    /\ local = [t \in Threads |-> NoLocal]
    /\ wakeAt = [t \in Threads |-> 0]
    /\ ret = [t \in Threads |-> "none"]
    /\ snap = [t \in Threads |-> NoSnapshot]
    /\ ncalls = 0
    /\ nresets = 0
    /\ log = << >>
    /\ raced = FALSE
    /\ limiters = << >>
    /\ instances = << >>
    /\ registry_lock = 0
    /\ caller = [t \in RegThreads |-> Idle]
    /\ returned = NoReturn
    /\ nregcalls = 0
    /\ served = {}
    /\ robots_cache = << >>
    /\ robots_reads = [b \in Bases |-> 0]
    /\ fetch_pc = "idle"
    /\ fetch_fn = "none"
    /\ fetch_url = << >>
    /\ fetch_retries = 0
    /\ respect_robots = FALSE
    /\ attempt = 0
    /\ gets = << >>
    /\ robots_answer = "unasked"
    /\ html = "None"
    /\ stages = << >>
    /\ result = "none"
    /\ nfetchcalls = 0
    /\ constructed = FALSE
    /\ max_concurrent = 0
    /\ retries = 0
    /\ semaphore = 0
    /\ task_pc = [t \in Tasks |-> "none"]
    /\ task_attempt = [t \in Tasks |-> 0]
    /\ task_gets = [t \in Tasks |-> 0]
    /\ task_last = [t \in Tasks |-> << "none", 0 >>]
    /\ task_result = [t \in Tasks |-> "none"]
    /\ in_semaphore = [t \in Tasks |-> FALSE]

\* ----------------------------------------------------------------- actions

\* A thread calls acquire(wait=b), get_stats() or reset().  Idle threads are
\* interchangeable: the first of them makes the call.
Call(t, o, b) ==
    /\ pc[t] = "idle"
    /\ \A u \in Threads : u < t => pc[u] # "idle"
    /\ ncalls < MaxCalls
    /\ pc' = [pc EXCEPT ![t] = "enter"]
    /\ op' = [op EXCEPT ![t] = o]
    /\ blocking' = [blocking EXCEPT ![t] = b]
    /\ ret' = [ret EXCEPT ![t] = "pending"]
    /\ snap' = [snap EXCEPT ![t] = NoSnapshot]
    /\ ncalls' = ncalls + 1
    /\ raced' = (raced \/ (o = "reset" /\ \E u \in Threads : pc[u] = "sleep"))
    /\ UNCHANGED << asyncVars, fetchVars, regVars, config, limiterVars, lock,
                    now, local, wakeAt, nresets, log >>

\* The call of thread t returns (or raises) r: the thread is idle again.
Returns(t, r) ==
    /\ pc' = [pc EXCEPT ![t] = "idle"]
    /\ op' = [op EXCEPT ![t] = "none"]
    /\ blocking' = [blocking EXCEPT ![t] = FALSE]
    /\ ret' = [ret EXCEPT ![t] = r]

\* The guard of every "with self.lock" body: the caller has the call pending
\* and the lock is free.
CanEnter(t, o) == pc[t] = "enter" /\ op[t] = o /\ lock = 0

\* acquire, _calculate_wait_time raises: the refill and the eviction stay,
\* the with statement releases the lock, the exception reaches the caller.
AcquireRaise(t) ==
    /\ CanEnter(t, "acquire")
    /\ Raises # "none"
    /\ tokens' = Refilled
    /\ last_refill' = now
    /\ requests_minute' = CleanMinute
    /\ requests_hour' = CleanHour
    /\ Returns(t, Raises)
    /\ log' = Append(log, LogEntry(t, 0, Refilled, Raises))
    /\ UNCHANGED << asyncVars, fetchVars, regVars, snap, raced, config,
                    total_requests, total_wait_time, rejections, lock, now,
                    local, wakeAt, ncalls, nresets >>

\* A rejection that consumes a token and records the request all the same.
AcquireRejectConsuming(t) ==
    /\ CanEnter(t, "acquire")
    /\ Raises = "none"
    /\ WaitTime > 0
    /\ ~blocking[t]
    /\ tokens' = Refilled - One
    /\ last_refill' = now
    /\ requests_minute' =
           DequeAppend(CleanMinute, now, config.requests_per_minute)
    /\ requests_hour' = DequeAppend(CleanHour, now, config.requests_per_hour)
    /\ rejections' = rejections + 1
    /\ Returns(t, "False")
    /\ log' = Append(log, LogEntry(t, WaitTime, Refilled, "False"))
    /\ UNCHANGED << asyncVars, fetchVars, regVars, snap, raced, config,
                    total_requests, total_wait_time, lock, now, local, wakeAt,
                    ncalls, nresets >>

\* acquire(wait=False) with a positive wait time: lines 121-127.
AcquireReject(t) ==
    /\ CanEnter(t, "acquire")
    /\ Raises = "none"
    /\ WaitTime > 0
    /\ ~blocking[t]
    /\ tokens' = Refilled
    /\ last_refill' = now
    /\ requests_minute' = CleanMinute
    /\ requests_hour' = CleanHour
    /\ rejections' = rejections + 1
    /\ Returns(t, "False")
    /\ log' = Append(log, LogEntry(t, WaitTime, Refilled, "False"))
    /\ UNCHANGED << asyncVars, fetchVars, regVars, snap, raced, config,
                    total_requests, total_wait_time, lock, now, local, wakeAt,
                    ncalls, nresets >>

\* A blocking acquire that gives up like a non-blocking one.
AcquireSleepRejects(t) ==
    /\ CanEnter(t, "acquire")
    /\ Raises = "none"
    /\ WaitTime > 0
    /\ blocking[t]
    /\ tokens' = Refilled
    /\ last_refill' = now
    /\ requests_minute' = CleanMinute
    /\ requests_hour' = CleanHour
    /\ rejections' = rejections + 1
    /\ Returns(t, "False")
    /\ log' = Append(log, LogEntry(t, WaitTime, Refilled, "False"))
    /\ UNCHANGED << asyncVars, fetchVars, regVars, snap, raced, config,
                    total_requests, total_wait_time, lock, now, local, wakeAt,
                    ncalls, nresets >>

\* acquire(wait=True) with a positive wait time, up to time.sleep: lines
\* 115-131.  The with block is not left: the lock stays held.
AcquireSleep(t) ==
    /\ CanEnter(t, "acquire")
    /\ Raises = "none"
    /\ WaitTime > 0
    /\ blocking[t]
    /\ tokens' = Refilled
    /\ last_refill' = now
    /\ requests_minute' = CleanMinute
    /\ requests_hour' = CleanHour
    /\ total_wait_time' = total_wait_time + WaitTime
    /\ lock' = t
    /\ pc' = [pc EXCEPT ![t] = "sleep"]
    /\ local' = [local EXCEPT ![t] = [tok |-> Refilled, w |-> WaitTime]]
    /\ wakeAt' = [wakeAt EXCEPT ![t] = now + WaitTime]
    /\ UNCHANGED << asyncVars, fetchVars, regVars, snap, raced, config,
                    total_requests, rejections, now, op, blocking, ret,
                    ncalls, nresets, log >>

\* An admission that takes no token.
ConsumeNothing(tok) == tok

\* Lines 136-143: consume a token and record the request.
Consume(tok) == tok - One

\* acquire with wait time 0: admitted at once, lines 115-121 and 136-143.
AcquireAdmit(t) ==
    /\ CanEnter(t, "acquire")
    /\ Raises = "none"
    /\ WaitTime = 0
    /\ tokens' = Consume(Refilled)
    /\ last_refill' = now
    /\ requests_minute' =
           DequeAppend(CleanMinute, now, config.requests_per_minute)
    /\ requests_hour' = DequeAppend(CleanHour, now, config.requests_per_hour)
    /\ total_requests' = total_requests + 1
    /\ Returns(t, "True")
    /\ log' = Append(log, LogEntry(t, 0, Refilled, "True"))
    /\ UNCHANGED << asyncVars, fetchVars, regVars, snap, raced, config,
                    total_wait_time, rejections, lock, now, local, wakeAt,
                    ncalls, nresets >>

\* time.sleep returns (never early, possibly late); lines 133-143 follow and
\* the with block ends.
AcquireWake(t) ==
    /\ pc[t] = "sleep"
    /\ now >= wakeAt[t]
    /\ tokens' = Consume(Refilled)
    /\ last_refill' = now
    /\ requests_minute' =
           DequeAppend(requests_minute, now, config.requests_per_minute)
    /\ requests_hour' = DequeAppend(requests_hour, now, config.requests_per_hour)
    /\ total_requests' = total_requests + 1
    /\ lock' = 0
    /\ local' = [local EXCEPT ![t] = NoLocal]
    /\ wakeAt' = [wakeAt EXCEPT ![t] = 0]
    /\ Returns(t, "True")
    /\ log' = Append(log, LogEntry(t, local[t].w, local[t].tok, "True"))
    /\ UNCHANGED << asyncVars, fetchVars, regVars, snap, raced, config,
                    total_wait_time, rejections, now, ncalls, nresets >>

\* A snapshot whose average counts the rejected calls too.
StatsSnapshotAvgOverAll ==
    [ total_requests       |-> total_requests,
      total_wait_time      |-> total_wait_time,
      rejections           |-> rejections,
      avg_wait_time        |->
          IF total_requests + rejections > 0
          THEN << total_wait_time, total_requests + rejections >>
          ELSE << 0, 1 >>,
      requests_last_minute |-> Len(requests_minute),
      requests_last_hour   |-> Len(requests_hour),
      current_tokens       |-> tokens ]

\* RateLimiter.get_stats: the dict it returns.  avg_wait_time is kept as the
\* fraction << numerator, denominator >>.
StatsSnapshot ==
    [ total_requests       |-> total_requests,
      total_wait_time      |-> total_wait_time,
      rejections           |-> rejections,
      avg_wait_time        |->
          IF total_requests > 0
          THEN << total_wait_time, total_requests >>
          ELSE << 0, 1 >>,
      requests_last_minute |-> Len(requests_minute),
      requests_last_hour   |-> Len(requests_hour),
      current_tokens       |-> tokens ]

\* A get_stats that reads the fields without taking the lock.
GetStatsUnlocked(t) ==
    /\ pc[t] = "enter"
    /\ op[t] = "get_stats"
    /\ Returns(t, "dict")
    /\ snap' = [snap EXCEPT ![t] = StatsSnapshot]
    /\ UNCHANGED << asyncVars, fetchVars, regVars, raced, config, limiterVars,
                    lock, now, local, wakeAt, ncalls, nresets, log >>

\* RateLimiter.get_stats.
GetStats(t) ==
    /\ CanEnter(t, "get_stats")
    /\ Returns(t, "dict")
    /\ snap' = [snap EXCEPT ![t] = StatsSnapshot]
    /\ UNCHANGED << asyncVars, fetchVars, regVars, raced, config, limiterVars,
                    lock, now, local, wakeAt, ncalls, nresets, log >>

\* A reset that forgets the hour window.
ResetKeepingHour(t) ==
    /\ CanEnter(t, "reset")
    /\ tokens' = config.burst_size * One
    /\ last_refill' = now
    /\ requests_minute' = << >>
    /\ total_requests' = 0
    /\ total_wait_time' = 0
    /\ rejections' = 0
    /\ Returns(t, "None")
    /\ nresets' = nresets + 1
    /\ UNCHANGED << asyncVars, fetchVars, regVars, snap, raced, config,
                    requests_hour, lock, now, local, wakeAt, ncalls, log >>

\* RateLimiter.reset.
Reset(t) ==
    /\ CanEnter(t, "reset")
    /\ tokens' = config.burst_size * One
    /\ last_refill' = now
    /\ requests_minute' = << >>
    /\ requests_hour' = << >>
    /\ total_requests' = 0
    /\ total_wait_time' = 0
    /\ rejections' = 0
    /\ Returns(t, "None")
    /\ nresets' = nresets + 1
    /\ UNCHANGED << asyncVars, fetchVars, regVars, snap, raced, config, lock,
                    now, local, wakeAt, ncalls, log >>

\* The wake-up times ahead.
WakeTimes == {wakeAt[t] : t \in {u \in Threads : pc[u] = "sleep"}}

\* Time passes: the clock moves to a later instant (as long as a call is
\* under way or still to come).  Taking a free lock takes no time: a caller
\* that wants the lock and finds it free enters before the clock moves.
Tick ==
    /\ ncalls < MaxCalls \/ \E u \in Threads : pc[u] # "idle"
    /\ lock = 0 => \A u \in Threads : pc[u] # "enter"
    /\ \E t \in {i \in Instants \cup WakeTimes : i > now} : now' = t
    /\ UNCHANGED << asyncVars, fetchVars, regVars, snap, raced, config,
                    limiterVars, lock, pc, op, blocking, local, wakeAt, ret,
                    ncalls, nresets, log >>

Next ==
    \/ \E t \in Threads : \E b \in BOOLEAN : Call(t, "acquire", b)
    \/ \E t \in Threads : Call(t, "get_stats", FALSE)
    \/ \E t \in Threads : Call(t, "reset", FALSE)
    \/ \E t \in Threads : AcquireRaise(t)
    \/ \E t \in Threads : AcquireReject(t)
    \/ \E t \in Threads : AcquireSleep(t)
    \/ \E t \in Threads : AcquireAdmit(t)
    \/ \E t \in Threads : AcquireWake(t)
    \/ \E t \in Threads : GetStats(t)
    \/ \E t \in Threads : Reset(t)
    \/ Tick

Spec == Init /\ [][Next]_vars

\* A limiter whose two window limits are at least 1.
InitWindows ==
    /\ Init
    /\ config.requests_per_minute >= 1
    /\ config.requests_per_hour >= 1

SpecWindows == InitWindows /\ [][Next]_vars

\* A limiter with a positive rate, a burst of at least 1 and window limits of
\* at least 1: _calculate_wait_time raises nothing.
InitPositive ==
    /\ Init
    /\ config.requests_per_second > 0
    /\ config.burst_size >= 1
    /\ config.requests_per_minute >= 1
    /\ config.requests_per_hour >= 1

NextPositive ==
    \/ \E t \in Threads : \E b \in BOOLEAN : Call(t, "acquire", b)
    \/ \E t \in Threads : Call(t, "get_stats", FALSE)
    \/ \E t \in Threads : Call(t, "reset", FALSE)
    \/ \E t \in Threads : AcquireReject(t)
    \/ \E t \in Threads : AcquireSleep(t)
    \/ \E t \in Threads : AcquireAdmit(t)
    \/ \E t \in Threads : AcquireWake(t)
    \/ \E t \in Threads : GetStats(t)
    \/ \E t \in Threads : Reset(t)
    \/ Tick

\* Time passes, and time.sleep returns once its time is over.
Fairness ==
    /\ WF_vars(Tick)
    /\ \A t \in Threads : WF_vars(AcquireWake(t))

SpecPositive == InitPositive /\ [][NextPositive]_vars /\ Fairness

\* ------------------------------------------------- DomainRateLimiter

\* A thread calls acquire(url, wait) or get_stats(domain).  Idle threads are
\* interchangeable: the first of them makes the call.
RegCall(t, o, a, b) ==
    /\ caller[t].pc = "idle"
    /\ \A u \in RegThreads : u < t => caller[u].pc # "idle"
    /\ nregcalls < MaxRegCalls
    /\ caller' = [caller EXCEPT ![t] =
           [Idle EXCEPT !.pc = "lock", !.op = o, !.arg = a, !.wait = b]]
    /\ nregcalls' = nregcalls + 1
    /\ UNCHANGED << asyncVars, fetchVars, config, limiterVars, callerVars,
                    now, limiters, instances, registry_lock, returned,
                    served >>

\* The call of thread t is over: it returned (or raised) r, with the dict d.
Finish(t, r, d) ==
    /\ caller' = [caller EXCEPT ![t] = Idle]
    /\ returned' = [op |-> caller[t].op, ret |-> r, arg |-> caller[t].arg,
                    out |-> d]

\* A membership test that never finds the domain.
KnownNever(d) == FALSE

\* Lines 217 and 235: domain in self.limiters.
Known(d) == d \in DOMAIN limiters

\* self.limiters[d] = the instance numbered i.
Store(d, i) ==
    [k \in DOMAIN limiters \cup {d} |-> IF k = d THEN i ELSE limiters[k]]

\* DomainRateLimiter.acquire, lines 214-219: under the registry lock, the
\* limiter of the url's domain is created unless it is there.
Lookup(t) ==
    /\ caller[t].pc = "lock"
    /\ caller[t].op = "acquire"
    /\ registry_lock = 0
    /\ LET d == GetDomain(caller[t].arg.s)
       IN  IF Known(d)
           THEN UNCHANGED << limiters, instances >>
           ELSE /\ instances' = Append(instances, NewLimiter(config, now))
                /\ limiters' = Store(d, Len(instances) + 1)
    /\ caller' = [caller EXCEPT ![t].pc = "delegate"]
    /\ UNCHANGED << asyncVars, fetchVars, returned, config, limiterVars,
                    callerVars, now, registry_lock, nregcalls, served >>

\* Line 221: self.limiters[domain], read when the delegated call is made.
Target(t) == limiters[GetDomain(caller[t].arg.s)]

\* The delegated acquire of thread t can enter its limiter's lock.
CanDelegate(t) ==
    /\ caller[t].pc = "delegate"
    /\ instances[Target(t)].lock = 0

\* What the delegated acquire decides on, for the instance l.
RefilledOf(l) == RefillTokens(l.tokens, l.last_refill, now, config)
CleanMinuteOf(l) == CleanOld(l.requests_minute, now, Minute)
CleanHourOf(l) == CleanOld(l.requests_hour, now, Hour)
RaisesOf(l) ==
    CalcRaises(RefilledOf(l), CleanMinuteOf(l), CleanHourOf(l), config)
WaitTimeOf(l) ==
    CalcWait(RefilledOf(l), CleanMinuteOf(l), CleanHourOf(l), now, config)

\* Lines 116-117 on the instance l: the refill and the eviction.
Prepared(l) ==
    [l EXCEPT !.tokens = RefilledOf(l),
              !.last_refill = now,
              !.requests_minute = CleanMinuteOf(l),
              !.requests_hour = CleanHourOf(l)]

\* Lines 133-143 on the instance l: refill, consume, record, at time now.
Recorded(l) ==
    [l EXCEPT !.tokens = Consume(RefilledOf(l)),
              !.last_refill = now,
              !.requests_minute =
                  DequeAppend(@, now, config.requests_per_minute),
              !.requests_hour = DequeAppend(@, now, config.requests_per_hour),
              !.total_requests = @ + 1]

\* A write that reaches every limiter of the registry.
PutEvery(i, l) == [j \in 1..Len(instances) |-> l]

\* The instance numbered i becomes l; the others are left alone.
Put(i, l) == [instances EXCEPT ![i] = l]

\* The delegated acquire is made on the instance that serves the url.
Serve(t) == served' = served \cup {<< caller[t].arg.s, Target(t) >>}

\* The delegated acquire raises (see AcquireRaise).
RegAcquireRaise(t) ==
    /\ CanDelegate(t)
    /\ RaisesOf(instances[Target(t)]) # "none"
    /\ instances' = Put(Target(t), Prepared(instances[Target(t)]))
    /\ Finish(t, RaisesOf(instances[Target(t)]), {})
    /\ Serve(t)
    /\ UNCHANGED << asyncVars, fetchVars, config, limiterVars, callerVars,
                    now, limiters, registry_lock, nregcalls >>

\* The delegated acquire(wait=False) is rejected (see AcquireReject).
RegAcquireReject(t) ==
    /\ CanDelegate(t)
    /\ RaisesOf(instances[Target(t)]) = "none"
    /\ WaitTimeOf(instances[Target(t)]) > 0
    /\ ~caller[t].wait
    /\ instances' =
           Put(Target(t),
               [Prepared(instances[Target(t)]) EXCEPT !.rejections = @ + 1])
    /\ Finish(t, "False", {})
    /\ Serve(t)
    /\ UNCHANGED << asyncVars, fetchVars, config, limiterVars, callerVars,
                    now, limiters, registry_lock, nregcalls >>

\* The delegated acquire(wait=True) goes to sleep, holding its limiter's
\* lock (see AcquireSleep).
RegAcquireSleep(t) ==
    /\ CanDelegate(t)
    /\ RaisesOf(instances[Target(t)]) = "none"
    /\ WaitTimeOf(instances[Target(t)]) > 0
    /\ caller[t].wait
    /\ instances' =
           Put(Target(t),
               [Prepared(instances[Target(t)]) EXCEPT
                    !.total_wait_time =
                        @ + WaitTimeOf(instances[Target(t)]),
                    !.lock = t])
    /\ caller' = [caller EXCEPT
           ![t].pc = "sleep",
           ![t].id = Target(t),
           ![t].w = WaitTimeOf(instances[Target(t)]),
           ![t].wake = now + WaitTimeOf(instances[Target(t)])]
    /\ Serve(t)
    /\ UNCHANGED << asyncVars, fetchVars, returned, config, limiterVars,
                    callerVars, now, limiters, registry_lock, nregcalls >>

\* The delegated acquire is admitted at once (see AcquireAdmit).
RegAcquireAdmit(t) ==
    /\ CanDelegate(t)
    /\ RaisesOf(instances[Target(t)]) = "none"
    /\ WaitTimeOf(instances[Target(t)]) = 0
    /\ instances' =
           Put(Target(t), Recorded(Prepared(instances[Target(t)])))
    /\ Finish(t, "True", {})
    /\ Serve(t)
    /\ UNCHANGED << asyncVars, fetchVars, config, limiterVars, callerVars,
                    now, limiters, registry_lock, nregcalls >>

\* A delegated acquire that returns without leaving its limiter's lock.
RegAcquireWakeKeepingLock(t) ==
    /\ caller[t].pc = "sleep"
    /\ now >= caller[t].wake
    /\ instances' = Put(caller[t].id, Recorded(instances[caller[t].id]))
    /\ Finish(t, "True", {})
    /\ UNCHANGED << asyncVars, fetchVars, config, limiterVars, callerVars,
                    now, limiters, registry_lock, nregcalls, served >>

\* The sleep of the delegated acquire ends (see AcquireWake).
RegAcquireWake(t) ==
    /\ caller[t].pc = "sleep"
    /\ now >= caller[t].wake
    /\ instances' =
           Put(caller[t].id,
               [Recorded(instances[caller[t].id]) EXCEPT !.lock = 0])
    /\ Finish(t, "True", {})
    /\ UNCHANGED << asyncVars, fetchVars, config, limiterVars, callerVars,
                    now, limiters, registry_lock, nregcalls, served >>

\* A test that takes the empty string for a domain.
Given(a) == ~a.none

\* Line 234, "if domain:": None and the empty string are not a domain.
Truthy(a) == ~a.none /\ a.s # << >>

\* The domains from the i-th instance on.
RECURSIVE KeysFrom(_)
KeysFrom(i) ==
    IF i > Len(instances) THEN << >>
    ELSE (IF \E k \in DOMAIN limiters : limiters[k] = i
          THEN << CHOOSE k \in DOMAIN limiters : limiters[k] = i >>
          ELSE << >>) \o KeysFrom(i + 1)

\* An iteration that skips the first domain.
KeysAfterFirst == KeysFrom(2)

\* Line 239, self.limiters.items(): the domains in insertion order.
Keys == KeysFrom(1)

\* get_stats(domain) for a domain that has no limiter: lines 233-237.
RegStatsMissing(t) ==
    /\ caller[t].pc = "lock"
    /\ caller[t].op = "get_stats"
    /\ registry_lock = 0
    /\ Truthy(caller[t].arg)
    /\ ~Known(caller[t].arg.s)
    /\ Finish(t, "dict", {NoStatsItem(caller[t].arg.s)})
    /\ UNCHANGED << asyncVars, fetchVars, config, limiterVars, callerVars,
                    now, limiters, instances, registry_lock, nregcalls,
                    served >>

\* get_stats takes the registry lock and finds the limiters to ask: the one
\* of the domain (lines 234-236) or all of them (lines 239-241).
RegStatsEnter(t) ==
    /\ caller[t].pc = "lock"
    /\ caller[t].op = "get_stats"
    /\ registry_lock = 0
    /\ Truthy(caller[t].arg) => Known(caller[t].arg.s)
    /\ registry_lock' = t
    /\ caller' = [caller EXCEPT
           ![t].pc = "visit",
           ![t].todo = IF Truthy(caller[t].arg)
                       THEN << caller[t].arg.s >>
                       ELSE Keys]
    /\ UNCHANGED << asyncVars, fetchVars, returned, config, limiterVars,
                    callerVars, now, limiters, instances, nregcalls, served >>

\* get_stats, holding the registry lock, calls the next limiter's get_stats,
\* which needs that limiter's lock.
RegStatsVisit(t) ==
    /\ caller[t].pc = "visit"
    /\ caller[t].todo # << >>
    /\ instances[limiters[Head(caller[t].todo)]].lock = 0
    /\ caller' = [caller EXCEPT
           ![t].out = @ \cup {StatsItem(Head(caller[t].todo),
                                        instances[limiters[Head(caller[t].todo)]])},
           ![t].todo = Tail(@)]
    /\ UNCHANGED << asyncVars, fetchVars, returned, config, limiterVars,
                    callerVars, now, limiters, instances, registry_lock,
                    nregcalls, served >>

\* get_stats returns its dict and leaves the registry lock.
RegStatsReturn(t) ==
    /\ caller[t].pc = "visit"
    /\ caller[t].todo = << >>
    /\ registry_lock' = 0
    /\ Finish(t, "dict", caller[t].out)
    /\ UNCHANGED << asyncVars, fetchVars, config, limiterVars, callerVars,
                    now, limiters, instances, nregcalls, served >>

\* The wake-up times ahead of the registry's callers.
RegWakeTimes ==
    {caller[t].wake : t \in {u \in RegThreads : caller[u].pc = "sleep"}}

\* Time passes for the registry's callers, up to the next moment a sleeper
\* may wake (see Tick): a caller that finds the lock it wants free takes it
\* before the clock moves.
RegTick ==
    /\ nregcalls < MaxRegCalls \/ \E u \in RegThreads : caller[u].pc # "idle"
    /\ \A u \in RegThreads :
           /\ caller[u].pc = "lock" => registry_lock # 0
           /\ caller[u].pc = "delegate" => instances[Target(u)].lock # 0
           /\ caller[u].pc = "visit" =>
                  /\ caller[u].todo # << >>
                  /\ instances[limiters[Head(caller[u].todo)]].lock # 0
    /\ \E t \in {i \in RegWakeTimes : i > now} : now' = t
    /\ UNCHANGED << asyncVars, fetchVars, config, limiterVars, callerVars,
                    regVars >>

NextRegistry ==
    \/ \E t \in RegThreads : \E u \in Urls : \E b \in BOOLEAN :
           RegCall(t, "acquire", Str(u), b)
    \/ \E t \in RegThreads : \E d \in StatsDomains :
           RegCall(t, "get_stats", Str(d), FALSE)
    \/ \E t \in RegThreads : RegCall(t, "get_stats", None, FALSE)
    \/ \E t \in RegThreads : Lookup(t)
    \/ \E t \in RegThreads : RegAcquireRaise(t)
    \/ \E t \in RegThreads : RegAcquireReject(t)
    \/ \E t \in RegThreads : RegAcquireSleep(t)
    \/ \E t \in RegThreads : RegAcquireAdmit(t)
    \/ \E t \in RegThreads : RegAcquireWake(t)
    \/ \E t \in RegThreads : RegStatsMissing(t)
    \/ \E t \in RegThreads : RegStatsEnter(t)
    \/ \E t \in RegThreads : RegStatsVisit(t)
    \/ \E t \in RegThreads : RegStatsReturn(t)
    \/ RegTick

\* A registry constructed with one of the default configurations; no
\* RateLimiter is used on its own.
InitRegistry ==
    /\ Init
    /\ config \in RegistryConfigs

SpecRegistry == InitRegistry /\ [][NextRegistry]_vars

\* ------------------------------------------------------ fetching pipeline

\* The variables no step of the pipeline changes.
notFetchVars == << asyncVars, regVars, config, limiterVars, callerVars, now >>

\* check_robots_txt(u) answers ans: a site that is not in the cache has its
\* robots.txt fetched; when the fetch raises the answer is True and nothing
\* is cached, otherwise the parser is cached, and the cached parser answers.
RobotsCached(b) == b \in DOMAIN robots_cache

CheckRobots(u, ans) ==
    LET b == Base(u)
    IN  IF ~RobotsCached(b)
        THEN /\ robots_reads' = [robots_reads EXCEPT ![b] = @ + 1]
             /\ \/ /\ ans = "True"
                   /\ UNCHANGED robots_cache
                \/ \E rules \in RobotsRules :
                      /\ robots_cache' =
                            [k \in DOMAIN robots_cache \cup {b} |->
                                IF k = b THEN rules ELSE robots_cache[k]]
                      /\ ans = IF CanFetch(rules, u) THEN "True" ELSE "False"
        ELSE /\ ans = IF CanFetch(robots_cache[b], u) THEN "True" ELSE "False"
             /\ UNCHANGED << robots_reads, robots_cache >>

\* A call of the pipeline starts.
FetchStart(f, u, n, rr) ==
    /\ fetch_pc = "idle"
    /\ nfetchcalls < MaxFetchCalls
    /\ nfetchcalls' = nfetchcalls + 1
    /\ fetch_fn' = f
    /\ fetch_url' = u
    /\ fetch_retries' = n
    /\ respect_robots' = rr
    /\ attempt' = 0
    /\ gets' = << >>
    /\ robots_answer' = "unasked"
    /\ html' = "None"

\* check_robots_txt(u), called on its own.
CheckRobotsTxt(u) ==
    /\ FetchStart("check_robots_txt", u, 0, FALSE)
    /\ \E ans \in {"True", "False"} :
          /\ CheckRobots(u, ans)
          /\ result' = ans
    /\ stages' = << >>
    /\ UNCHANGED fetch_pc
    /\ UNCHANGED notFetchVars

\* fetch_html(u, retries=n, respect_robots=rr) is called.
FetchHtml(u, n, rr) ==
    /\ FetchStart("fetch_html", u, n, rr)
    /\ fetch_pc' = IF rr THEN "robots" ELSE "get"
    /\ result' = "none"
    /\ stages' = << >>
    /\ UNCHANGED << robots_cache, robots_reads >>
    /\ UNCHANGED notFetchVars

\* scraper.run(u) is called and calls fetch_html(u) with its defaults.
Run(u) ==
    /\ FetchStart("run", u, DefaultRetries, TRUE)
    /\ fetch_pc' = "robots"
    /\ result' = "none"
    /\ stages' = << "fetch" >>
    /\ UNCHANGED << robots_cache, robots_reads >>
    /\ UNCHANGED notFetchVars

\* fetch_html returns r: to run, which stops when r is no HTML and goes on
\* to parse otherwise, or to the caller.
FetchReturn(r) ==
    IF fetch_fn = "run"
    THEN /\ html' = r
         /\ IF NotHtml(r)
            THEN fetch_pc' = "idle" /\ result' = "None"
            ELSE fetch_pc' = "parse" /\ UNCHANGED result
    ELSE /\ fetch_pc' = "idle"
         /\ result' = r
         /\ UNCHANGED html

\* fetch_html consults check_robots_txt when respect_robots is true.
FetchRobotsIgnored ==
    /\ fetch_pc = "robots"
    /\ \E ans \in {"True", "False"} :
          /\ CheckRobots(fetch_url, ans)
          /\ robots_answer' = ans
          /\ fetch_pc' = "get"
          /\ UNCHANGED << html, result >>
    /\ UNCHANGED << fetch_fn, fetch_url, fetch_retries, respect_robots,
                    attempt, gets, stages, nfetchcalls >>
    /\ UNCHANGED notFetchVars

FetchRobots ==
    /\ fetch_pc = "robots"
    /\ \E ans \in {"True", "False"} :
          /\ CheckRobots(fetch_url, ans)
          /\ robots_answer' = ans
          /\ IF ans = "False"
             THEN FetchReturn("None")
             ELSE fetch_pc' = "get" /\ UNCHANGED << html, result >>
    /\ UNCHANGED << fetch_fn, fetch_url, fetch_retries, respect_robots,
                    attempt, gets, stages, nfetchcalls >>
    /\ UNCHANGED notFetchVars

\* response.raise_for_status() raises HTTPError for a client or server
\* error status.
RaisesForStatus(st) == 400 <= st /\ st < 600

\* A verdict that retries after client errors too.
GetVerdictRetryAnyError(o, att, n) ==
    IF o[1] = "response"
    THEN IF ~RaisesForStatus(o[2]) THEN "text"
         ELSE IF att < n - 1 THEN "retry" ELSE "None"
    ELSE IF o[1] \in {"Timeout", "ConnectionError"}
         THEN IF att < n - 1 THEN "retry" ELSE "None"
         ELSE "None"

\* What fetch_html does with the outcome o of attempt number att of n.
GetVerdict(o, att, n) ==
    IF o[1] = "response"
    THEN IF ~RaisesForStatus(o[2]) THEN "text"
         ELSE IF 400 <= o[2] /\ o[2] < 500 THEN "None"
         ELSE IF att < n - 1 THEN "retry" ELSE "None"
    ELSE IF o[1] \in {"Timeout", "ConnectionError"}
         THEN IF att < n - 1 THEN "retry" ELSE "None"
         ELSE "None"

\* One pass of the for loop of fetch_html: requests.get has the outcome o.
FetchGet(o) ==
    /\ fetch_pc = "get"
    /\ attempt < fetch_retries
    /\ gets' = Append(gets, o)
    /\ LET v == GetVerdict(o, attempt, fetch_retries)
       IN  IF v = "text" THEN \E text \in Texts : FetchReturn(text)
           ELSE IF v = "None" THEN FetchReturn("None")
           ELSE fetch_pc' = "backoff" /\ UNCHANGED << html, result >>
    /\ UNCHANGED << robots_cache, robots_reads, fetch_fn, fetch_url,
                    fetch_retries, respect_robots, attempt, robots_answer,
                    stages, nfetchcalls >>
    /\ UNCHANGED notFetchVars

\* time.sleep(backoff_factor * 2 ** attempt) returns and the loop goes on.
FetchBackoff ==
    /\ fetch_pc = "backoff"
    /\ attempt' = attempt + 1
    /\ fetch_pc' = "get"
    /\ UNCHANGED << robots_cache, robots_reads, fetch_fn, fetch_url,
                    fetch_retries, respect_robots, gets, robots_answer, html,
                    stages, result, nfetchcalls >>
    /\ UNCHANGED notFetchVars

\* The for loop of fetch_html has nothing (more) to do: return None.
FetchExhausted ==
    /\ fetch_pc = "get"
    /\ attempt >= fetch_retries
    /\ FetchReturn("None")
    /\ UNCHANGED << robots_cache, robots_reads, fetch_fn, fetch_url,
                    fetch_retries, respect_robots, attempt, gets,
                    robots_answer, stages, nfetchcalls >>
    /\ UNCHANGED notFetchVars

\* run parses the HTML and stops when there are no items.
RunParseThenExport ==
    /\ fetch_pc = "parse"
    /\ stages' = Append(stages, "parse")
    /\ fetch_pc' = "export"
    /\ UNCHANGED result
    /\ UNCHANGED << robots_cache, robots_reads, fetch_fn, fetch_url,
                    fetch_retries, respect_robots, attempt, gets,
                    robots_answer, html, nfetchcalls >>
    /\ UNCHANGED notFetchVars

RunParse ==
    /\ fetch_pc = "parse"
    /\ stages' = Append(stages, "parse")
    /\ IF ParseItems(html) = 0
       THEN fetch_pc' = "idle" /\ result' = "None"
       ELSE fetch_pc' = "export" /\ UNCHANGED result
    /\ UNCHANGED << robots_cache, robots_reads, fetch_fn, fetch_url,
                    fetch_retries, respect_robots, attempt, gets,
                    robots_answer, html, nfetchcalls >>
    /\ UNCHANGED notFetchVars

\* run exports the items and returns what the exporter returned.
RunExport(o) ==
    /\ fetch_pc = "export"
    /\ stages' = Append(stages, "export")
    /\ fetch_pc' = "idle"
    /\ result' = o
    /\ UNCHANGED << robots_cache, robots_reads, fetch_fn, fetch_url,
                    fetch_retries, respect_robots, attempt, gets,
                    robots_answer, html, nfetchcalls >>
    /\ UNCHANGED notFetchVars

NextFetch ==
    \/ \E u \in Urls : CheckRobotsTxt(u)
    \/ \E u \in Urls, n \in RetryCounts, rr \in BOOLEAN : FetchHtml(u, n, rr)
    \/ \E u \in Urls : Run(u)
    \/ FetchRobots
    \/ \E o \in GetOutcomes : FetchGet(o)
    \/ FetchBackoff
    \/ FetchExhausted
    \/ RunParse
    \/ \E o \in ExportOutcomes : RunExport(o)

\* The pipeline uses no RateLimiter: one configuration stands for all.
InitFetch ==
    /\ Init
    /\ config.requests_per_second = 1
    /\ config.requests_per_minute = 2
    /\ config.requests_per_hour = 2
    /\ config.burst_size = 2
    /\ config.min_delay = 0

SpecFetch == InitFetch /\ [][NextFetch]_vars

\* ----------------------------------------------------------- AsyncScraper

\* The variables no step of the AsyncScraper changes.
notAsyncVars ==
    << fetchVars, regVars, config, limiterVars, callerVars, now >>

\* AsyncScraper(max_concurrent=m, retries=r).
AsyncScraperInit(m, r) ==
    /\ ~constructed
    /\ constructed' = TRUE
    /\ max_concurrent' = m
    /\ retries' = r
    /\ semaphore' = m
    /\ UNCHANGED << task_pc, task_attempt, task_gets, task_last, task_result,
                    in_semaphore >>
    /\ UNCHANGED notAsyncVars

\* scrape_urls creates the task fetch(session, url).
TaskStart(t) ==
    /\ constructed
    /\ task_pc[t] = "none"
    /\ task_pc' = [task_pc EXCEPT ![t] = "start"]
    /\ UNCHANGED << constructed, max_concurrent, retries, semaphore,
                    task_attempt, task_gets, task_last, task_result,
                    in_semaphore >>
    /\ UNCHANGED notAsyncVars

\* An acquire that takes no slot.
SemAcquireFree(v) == v

\* asyncio.Semaphore.acquire and release, on the value.
SemAcquire(v) == v - 1

SemRelease(v) == v + 1

\* A fetch that gives up after its first failed attempt.
AfterAttemptGiveUp(t) ==
    /\ task_pc' = [task_pc EXCEPT ![t] = "done"]
    /\ task_result' = [task_result EXCEPT ![t] = "False"]

\* After a failed attempt: sleep for the backoff when another attempt
\* follows, and otherwise leave the loop and return success=False.
AfterAttempt(t) ==
    IF task_attempt[t] < retries - 1
    THEN /\ task_pc' = [task_pc EXCEPT ![t] = "backoff"]
         /\ UNCHANGED task_result
    ELSE /\ task_pc' = [task_pc EXCEPT ![t] = "done"]
         /\ task_result' = [task_result EXCEPT ![t] = "False"]

\* The head of the for loop: the task enters "async with self.semaphore" as
\* soon as a slot is free and issues session.get.
TaskGet(t) ==
    /\ task_pc[t] = "start"
    /\ task_attempt[t] < retries
    /\ semaphore > 0
    /\ semaphore' = SemAcquire(semaphore)
    /\ in_semaphore' = [in_semaphore EXCEPT ![t] = TRUE]
    /\ task_gets' = [task_gets EXCEPT ![t] = @ + 1]
    /\ task_pc' = [task_pc EXCEPT ![t] = "request"]
    /\ UNCHANGED << constructed, max_concurrent, retries, task_attempt,
                    task_last, task_result >>
    /\ UNCHANGED notAsyncVars

\* The for loop has nothing to do (retries is 0): success=False.
TaskNoAttempt(t) ==
    /\ task_pc[t] = "start"
    /\ task_attempt[t] >= retries
    /\ task_pc' = [task_pc EXCEPT ![t] = "done"]
    /\ task_result' = [task_result EXCEPT ![t] = "False"]
    /\ UNCHANGED << constructed, max_concurrent, retries, semaphore,
                    task_attempt, task_gets, task_last, in_semaphore >>
    /\ UNCHANGED notAsyncVars

\* The request of task t ends with outcome o, and the task leaves the
\* "async with self.semaphore" block: by return on status 200, to the
\* inter-request delay on another status, to the except clauses on a raise.
TaskResponse(t, o) ==
    /\ task_pc[t] = "request"
    /\ task_last' = [task_last EXCEPT ![t] = o]
    /\ semaphore' = SemRelease(semaphore)
    /\ in_semaphore' = [in_semaphore EXCEPT ![t] = FALSE]
    /\ IF o[1] = "response"
       THEN IF o[2] = 200
            THEN /\ task_pc' = [task_pc EXCEPT ![t] = "done"]
                 /\ task_result' = [task_result EXCEPT ![t] = "True"]
            ELSE /\ task_pc' = [task_pc EXCEPT ![t] = "delay"]
                 /\ UNCHANGED task_result
       ELSE AfterAttempt(t)
    /\ UNCHANGED << constructed, max_concurrent, retries, task_attempt,
                    task_gets >>
    /\ UNCHANGED notAsyncVars

\* asyncio.sleep(self.delay) returns.
TaskDelayed(t) ==
    /\ task_pc[t] = "delay"
    /\ AfterAttempt(t)
    /\ UNCHANGED << constructed, max_concurrent, retries, semaphore,
                    task_attempt, task_gets, task_last, in_semaphore >>
    /\ UNCHANGED notAsyncVars

\* asyncio.sleep(2 ** attempt) returns and the next attempt starts.
TaskBackedOff(t) ==
    /\ task_pc[t] = "backoff"
    /\ task_attempt' = [task_attempt EXCEPT ![t] = @ + 1]
    /\ task_pc' = [task_pc EXCEPT ![t] = "start"]
    /\ UNCHANGED << constructed, max_concurrent, retries, semaphore,
                    task_gets, task_last, task_result, in_semaphore >>
    /\ UNCHANGED notAsyncVars

NextAsync ==
    \/ \E m \in MaxConcurrents, r \in 0..MaxAsyncRetries :
          AsyncScraperInit(m, r)
    \/ \E t \in Tasks : TaskStart(t)
    \/ \E t \in Tasks : TaskGet(t)
    \/ \E t \in Tasks : TaskNoAttempt(t)
    \/ \E t \in Tasks, o \in AsyncOutcomes : TaskResponse(t, o)
    \/ \E t \in Tasks : TaskDelayed(t)
    \/ \E t \in Tasks : TaskBackedOff(t)

\* The AsyncScraper uses no RateLimiter either.
InitAsync == InitFetch

SpecAsync == InitAsync /\ [][NextAsync]_vars

\* ------------------------------------------------------------------ claims

Entries == 1..Len(log)

Admitted == {i \in Entries : log[i].r = "True"}

\* The admissions in the span seconds up to and including admission i.
InTrailing(i, span) ==
    {j \in Admitted : log[j].at <= log[i].at /\ log[j].at > log[i].at - span}

RECURSIVE SumWaits(_)
SumWaits(l) == IF l = << >> THEN 0 ELSE l[1].w + SumWaits(Tail(l))

\* C1: with requests_per_minute >= 1 and requests_per_hour >= 1 and no
\* reset, the admissions in any trailing 60 seconds (the interval (t - 60, t]
\* ending at an admission) are at most requests_per_minute, and those in any
\* trailing 3600 seconds at most requests_per_hour.
C1_WindowLimits ==
    (nresets = 0 /\ config.requests_per_minute >= 1
                 /\ config.requests_per_hour >= 1)
    => \A i \in Admitted :
           /\ Cardinality(InTrailing(i, Minute)) <= config.requests_per_minute
           /\ Cardinality(InTrailing(i, Hour)) <= config.requests_per_hour

\* More admissions than either limit, of blocking and non-blocking calls.
C1_Witness ==
    /\ nresets = 0
    /\ config.requests_per_minute >= 1
    /\ config.requests_per_hour >= 1
    /\ Cardinality(Admitted) > config.requests_per_minute
    /\ Cardinality(Admitted) > config.requests_per_hour
    /\ \E i, j \in Admitted : log[i].b /\ ~log[j].b

\* C2: with burst_size >= 1 and requests_per_second > 0 the token count
\* stays within 0 and burst_size in every reachable state.
C2_TokenRange ==
    (config.burst_size >= 1 /\ config.requests_per_second > 0)
    => (0 <= tokens /\ tokens <= config.burst_size * One)

\* The bucket emptied by an admission that waited, after a reset.
C2_Witness ==
    /\ config.burst_size >= 1
    /\ config.requests_per_second > 0
    /\ nresets > 0
    /\ tokens = 0
    /\ \E i \in Admitted : log[i].b /\ log[i].tok < One

\* C3: a caller suspended in acquire(wait=True) does not hold the lock.
C3_SleeperHoldsNoLock ==
    \A t \in Threads : pc[t] = "sleep" => lock # t

\* C4: acquire(wait=False) never waits for time to pass: the clock does not
\* move while such a call is pending.
C4_NonBlockingNeverWaits ==
    [][(\E t \in Threads : pc[t] = "enter" /\ op[t] = "acquire" /\ ~blocking[t])
       => now' = now]_vars

\* The step in which thread t's acquire(wait=False) returns False.
RejectStep(t) ==
    /\ pc[t] = "enter" /\ op[t] = "acquire" /\ ~blocking[t]
    /\ pc'[t] = "idle" /\ ret'[t] = "False"

\* The entries of window q that are at most span seconds old.
NotExpired(q, span) == SelectSeq(q, LAMBDA x : now - x <= span)

\* C5 as stated: a rejection adds 1 to rejections and leaves tokens, both
\* windows, total_requests and total_wait_time as they were before the call.
C5_RejectChangesNothing ==
    [][\A t \in Threads : RejectStep(t) =>
          /\ rejections' = rejections + 1
          /\ tokens' = tokens
          /\ requests_minute' = requests_minute
          /\ requests_hour' = requests_hour
          /\ total_requests' = total_requests
          /\ total_wait_time' = total_wait_time]_vars

\* C5 amended: a rejection adds 1 to rejections, leaves total_requests and
\* total_wait_time, and changes tokens and the windows by the refill and the
\* eviction only: no token is consumed, no timestamp appended.
C5_RejectRefillsAndEvictsOnly ==
    [][\A t \in Threads : RejectStep(t) =>
          /\ rejections' = rejections + 1
          /\ tokens' = Min(config.burst_size * One,
                           tokens + (now - last_refill)
                                        * config.requests_per_second)
          /\ requests_minute' = NotExpired(requests_minute, Minute)
          /\ requests_hour' = NotExpired(requests_hour, Hour)
          /\ total_requests' = total_requests
          /\ total_wait_time' = total_wait_time]_vars

\* A rejection decided on a token count that the refill had changed.
C5_Witness ==
    /\ rejections >= 1
    /\ \E i \in Entries :
           log[i].r = "False" /\ log[i].tok > 0 /\ log[i].tok < One

\* C6: the first acquire(wait=True) on a new limiter returns True after a
\* wait of min_delay and leaves total_requests = 1.
C6_FirstAcquire ==
    (Len(log) = 1 /\ log[1].b /\ nresets = 0)
    => /\ log[1].r = "True"
       /\ log[1].w = config.min_delay
       /\ total_requests = 1

\* Only acquire(wait=True) calls so far, on a limiter never reset, none of
\* them under way, and no time has passed but their waits.
RapidBlocking ==
    /\ nresets = 0
    /\ \A t \in Threads : pc[t] # "sleep"
    /\ \A i \in Entries : log[i].b
    /\ now = SumWaits(log)

AllAdmitAfterMinDelay ==
    \A i \in Entries : log[i].r = "True" /\ log[i].w = config.min_delay

\* C7 as stated: n <= burst_size back-to-back blocking calls on a fresh
\* limiter all return True, each after a wait of min_delay.
C7_BurstAbsorbed ==
    (RapidBlocking /\ Len(log) <= config.burst_size) => AllAdmitAfterMinDelay

\* C7 amended: the same for n <= burst_size, n <= requests_per_minute and
\* n <= requests_per_hour.
C7_BurstAbsorbedWithinWindows ==
    (RapidBlocking /\ Len(log) <= config.burst_size
                   /\ Len(log) <= config.requests_per_minute
                   /\ Len(log) <= config.requests_per_hour)
    => AllAdmitAfterMinDelay

\* Two back-to-back blocking calls, each admitted after min_delay > 0.
C7_Witness ==
    /\ RapidBlocking
    /\ Len(log) = 2
    /\ config.burst_size >= 2
    /\ config.min_delay > 0
    /\ AllAdmitAfterMinDelay

\* The acquire decisions that found less than one token after the refill.
Exhausted ==
    {i \in Entries : /\ config.requests_per_second > 0
                     /\ log[i].tok < One
                     /\ log[i].r \in {"True", "False"}}

\* C8 as stated: with rate R > 0 and less than one token after the refill,
\* the computed wait is at least 1/R.
C8_WaitAtLeastOneOverR ==
    \A i \in Exhausted : log[i].w * config.requests_per_second >= One

\* C8 amended: the computed wait is at least (1 - tokens)/R for the token
\* count after the refill; that is 1/R when the refill left no token
\* fraction (tokens = 0).
C8_WaitAtLeastDeficitOverR ==
    \A i \in Exhausted :
        /\ log[i].w * config.requests_per_second >= One - log[i].tok
        /\ log[i].tok = 0 => log[i].w * config.requests_per_second >= One

\* An admission that found half a token and waited for the other half only.
C8_Witness ==
    \E i \in Exhausted :
        /\ log[i].r = "True"
        /\ log[i].tok > 0
        /\ log[i].w * config.requests_per_second = One - log[i].tok

\* C9: every acquire returns True or False; none raises.
C9_AcquireNeverRaises ==
    \A i \in Entries : log[i].r \in {"True", "False"}

\* C10: with requests_per_second = 0 and less than one token, the wait is
\* unbounded and nothing is raised: a non-blocking acquire returns False and
\* a blocking one does not return.
C10_ZeroRateWaitsForever ==
    \A i \in Entries :
        (config.requests_per_second = 0 /\ log[i].tok < One)
        => (log[i].r = "False" /\ ~log[i].b)

\* C11: on a limiter constructed with burst_size = 0, no acquire call
\* (blocking or not) ever returns True.
C11_ZeroBurstNeverAdmits ==
    config.burst_size = 0 => Admitted = {}

\* The step in which reset() of thread t runs and returns.
ResetStep(t) == pc[t] = "enter" /\ op[t] = "reset" /\ pc'[t] = "idle"

\* C12: whatever calls preceded it, reset() leaves tokens = burst_size, both
\* windows empty, the three counters 0 and last_refill at the current time,
\* and does not change the config.
C12_ResetRestores ==
    [][\A t \in Threads :
          ResetStep(t) =>
              /\ tokens' = config.burst_size * One
              /\ requests_minute' = << >>
              /\ requests_hour' = << >>
              /\ total_requests' = 0
              /\ total_wait_time' = 0
              /\ rejections' = 0
              /\ last_refill' = now'
              /\ config' = config]_vars

\* A reset after an admission that waited and a rejection, later than the
\* last refill before it.
C12_Witness ==
    /\ nresets = 1
    /\ \A t \in Threads : pc[t] = "idle"
    /\ \E i \in Admitted : log[i].w > 0 /\ log[i].at < now
    /\ \E i \in Entries : log[i].r = "False"
    /\ config.burst_size >= 1
    /\ tokens = config.burst_size * One
    /\ requests_minute = << >>
    /\ requests_hour = << >>
    /\ total_requests = 0
    /\ total_wait_time = 0
    /\ rejections = 0
    /\ last_refill = now

\* The admissions of blocking calls that waited.
Waited == {i \in Admitted : log[i].b /\ log[i].w > 0}

\* The window q holds the timestamp x.
Holds(q, x) == \E k \in 1..Len(q) : q[k] = x

\* C13: reset() is called while another caller sleeps inside a blocking
\* acquire; once both calls have finished, the sleeper's admission is
\* recorded: total_requests >= 1 and both windows hold its timestamp.
C13_ResetDuringWait ==
    (raced /\ ncalls = 2 /\ \A t \in Threads : pc[t] = "idle")
    => /\ total_requests >= 1
       /\ \E i \in Waited :
              /\ Holds(requests_minute, log[i].at)
              /\ Holds(requests_hour, log[i].at)

\* The step in which get_stats() of thread t runs and returns.
StatsStep(t) == pc[t] = "enter" /\ op[t] = "get_stats" /\ pc'[t] = "idle"

\* C19: get_stats() returns total_requests, total_wait_time, rejections,
\* tokens and the two window sizes as stored at the call, the average wait
\* total_wait_time / total_requests when total_requests > 0 and 0 otherwise,
\* and changes no limiter state.
C19_StatsExact ==
    [][\A t \in Threads :
          StatsStep(t) =>
              /\ ret'[t] = "dict"
              /\ snap'[t].total_requests = total_requests
              /\ snap'[t].total_wait_time = total_wait_time
              /\ snap'[t].rejections = rejections
              /\ snap'[t].current_tokens = tokens
              /\ snap'[t].requests_last_minute = Len(requests_minute)
              /\ snap'[t].requests_last_hour = Len(requests_hour)
              /\ snap'[t].avg_wait_time =
                     IF total_requests > 0
                     THEN << total_wait_time, total_requests >>
                     ELSE << 0, 1 >>
              /\ UNCHANGED << config, limiterVars >>]_vars

\* Stats taken after an admission that waited and a rejection.
C19_Witness ==
    \E t \in Threads :
        /\ ret[t] = "dict"
        /\ snap[t].total_requests > 0
        /\ snap[t].total_wait_time > 0
        /\ snap[t].rejections > 0
        /\ snap[t].avg_wait_time =
               << snap[t].total_wait_time, snap[t].total_requests >>

\* The minute window is at its limit and its oldest entry is younger than
\* 60 seconds.
SaturatedMinute ==
    /\ config.requests_per_minute >= 1
    /\ Len(requests_minute) = config.requests_per_minute
    /\ now - requests_minute[1] < Minute

\* C20: when the minute window holds requests_per_minute entries and the
\* oldest is a < 60 seconds old, a blocking acquire is not admitted at once:
\* it sleeps until the oldest entry is 60 seconds old or later, a wait of
\* 60 - a seconds at least.
C20_SaturatedMinuteWaits ==
    [][\A t \in Threads :
          ( /\ pc[t] = "enter" /\ op[t] = "acquire" /\ blocking[t]
            /\ SaturatedMinute
            /\ pc'[t] # "enter" )
          => /\ pc'[t] = "idle" => ret'[t] # "True"
             /\ pc'[t] = "sleep" =>
                    /\ local'[t].w >= Minute - (now - requests_minute[1])
                    /\ wakeAt'[t] >= requests_minute[1] + Minute]_vars

\* requests_per_minute = 2: of three blocking calls made one after the
\* other at the same instant, the third is admitted after 59 seconds or more.
C20_Witness ==
    /\ config.requests_per_minute = 2
    /\ nresets = 0
    /\ Len(log) = 3
    /\ \A i \in Entries : log[i].b /\ log[i].r = "True"
    /\ log[1].w = 0 /\ log[2].w = 0
    /\ log[1].at = log[2].at
    /\ log[3].w >= Minute - 1
    /\ log[3].at >= log[1].at + Minute - 1

\* ------------------------------------------- claims, DomainRateLimiter

\* The URLs whose acquire has been through the lookup of lines 216-219.
LookedUp ==
    {p[1] : p \in served}
    \cup {caller[t].arg.s :
             t \in {u \in RegThreads : /\ caller[u].op = "acquire"
                                       /\ caller[u].pc = "delegate"}}

\* The domains of those URLs.
DomainsLookedUp == {GetDomain(u) : u \in LookedUp}

\* C14: for any interleaving of registry acquire calls, at most one limiter
\* is ever constructed and stored per domain, every call for the domain is
\* delegated to that instance, and a stored instance is never replaced or
\* removed.
C14_OneLimiterPerKey ==
    /\ [](/\ Cardinality(DOMAIN limiters) = Len(instances)
          /\ \A k \in DOMAIN limiters : limiters[k] \in 1..Len(instances)
          /\ \A p \in served : p[2] = limiters[GetDomain(p[1])]
          /\ \A t \in RegThreads :
                 caller[t].pc = "sleep"
                 => caller[t].id = limiters[GetDomain(caller[t].arg.s)])
    /\ [][\A k \in DOMAIN limiters :
              k \in DOMAIN limiters' /\ limiters'[k] = limiters[k]]_vars

\* Two callers with different URLs of one domain are past the lookup
\* together, and one limiter has been constructed.
C14_Witness ==
    /\ Len(instances) = 1
    /\ \E t, u \in RegThreads :
           /\ caller[t].pc = "delegate" /\ caller[u].pc = "delegate"
           /\ caller[t].arg.s # caller[u].arg.s
           /\ GetDomain(caller[t].arg.s) = GetDomain(caller[u].arg.s)

\* C15: for any two different strings given to the registry's acquire, the
\* calls are served by different limiters.
C15_DistinctStringsDistinctLimiters ==
    \A p, q \in served : p[1] # q[1] => p[2] # q[2]

\* The domain whose limiter is the instance numbered j.
KeyOf(j) == CHOOSE k \in DOMAIN limiters : limiters[k] = j

\* C15 amended: acquire calls for URLs of different domains are served by
\* different limiters, and the state of a limiter changes only in a step of
\* an acquire for a URL of its own domain.
C15_DistinctDomainsDistinctLimiters ==
    /\ [](\A p, q \in served :
              GetDomain(p[1]) # GetDomain(q[1]) => p[2] # q[2])
    /\ [][\A j \in 1..Len(instances) :
              instances'[j] # instances[j]
              => \E t \in RegThreads :
                     /\ caller'[t] # caller[t]
                     /\ caller[t].op = "acquire"
                     /\ GetDomain(caller[t].arg.s) = KeyOf(j)]_vars

\* One domain's limiter is exhausted and has rejected a call; the other
\* domain's limiter has admitted its call.
C15_Witness ==
    \E p, q \in served :
        /\ GetDomain(p[1]) # GetDomain(q[1])
        /\ p[2] # q[2]
        /\ instances[p[2]].tokens < One
        /\ instances[p[2]].rejections >= 1
        /\ instances[q[2]].total_requests >= 1
        /\ instances[q[2]].rejections = 0

\* The holder of the registry lock waits for the lock of the limiter that
\* thread t sleeps in.
WaitsForSleeper(t) ==
    /\ registry_lock # 0
    /\ caller[registry_lock].pc = "visit"
    /\ caller[registry_lock].todo # << >>
    /\ limiters[Head(caller[registry_lock].todo)] = caller[t].id

\* C16: while one caller is in a blocking wait for domain A, an acquire for
\* a domain B # A is not kept waiting for the registry lock until A's wait
\* ends.
C16_OtherKeysNotStalled ==
    \A t, u \in RegThreads :
        ( /\ caller[t].pc = "sleep"
          /\ caller[u].op = "acquire"
          /\ caller[u].pc = "lock"
          /\ GetDomain(caller[u].arg.s) # GetDomain(caller[t].arg.s) )
        => ~WaitsForSleeper(t)

\* A string argument that is not the empty string.
NonEmpty(a) == ~a.none /\ a.s # << >>

\* The steps of get_stats of thread t: it returns "No stats available", it
\* takes the registry lock, it asks one limiter, it returns the dict it has
\* built.
RegEnterStep(t) ==
    /\ caller[t].op = "get_stats"
    /\ caller[t].pc = "lock"
    /\ caller'[t].pc = "visit"
RegMissingStep(t) ==
    /\ caller[t].op = "get_stats"
    /\ caller[t].pc = "lock"
    /\ caller'[t].pc = "idle"
RegVisitStep(t) ==
    /\ caller[t].pc = "visit"
    /\ caller'[t].pc = "visit"
    /\ caller'[t].todo # caller[t].todo
RegReturnStep(t) ==
    /\ caller[t].pc = "visit"
    /\ caller'[t].pc = "idle"

\* C17: get_stats(key), for a key that is not empty, returns the stats of
\* the limiter that serves acquire(key) when that same string has been given
\* to acquire, and the no-data marker when it has not; it never creates a
\* limiter.
C17_StatsByAcquireKey ==
    [][\A t \in RegThreads :
          ((RegMissingStep(t) \/ RegReturnStep(t)) /\ NonEmpty(caller[t].arg))
          => /\ IF \E p \in served : p[1] = caller[t].arg.s
                THEN \E e \in returned'.out :
                         /\ returned'.out = {e}
                         /\ e.key = caller[t].arg.s
                         /\ ~e.nodata
                ELSE returned'.out = {NoStatsItem(caller[t].arg.s)}
             /\ UNCHANGED << limiters, instances >>]_vars

\* C17 amended: get_stats(d) for a non-empty string d returns {d: the stats
\* of the limiter that serves every acquire(url) whose domain is d} when
\* such an acquire has been through its lookup, and {d: "No stats
\* available"} otherwise (so for a d that is a URL); get_stats("") does what
\* get_stats(None) does; no get_stats creates or replaces a limiter.
C17_StatsByDomain ==
    [][\A t \in RegThreads :
          /\ RegMissingStep(t) =>
                 /\ NonEmpty(caller[t].arg)
                 /\ caller[t].arg.s \notin DomainsLookedUp
                 /\ returned'.out = {NoStatsItem(caller[t].arg.s)}
          /\ (RegVisitStep(t) /\ NonEmpty(caller[t].arg)) =>
                 /\ caller[t].arg.s \in DomainsLookedUp
                 /\ \A p \in served :
                        GetDomain(p[1]) = caller[t].arg.s
                        => p[2] = limiters[caller[t].arg.s]
                 /\ caller'[t].out =
                        {StatsItem(caller[t].arg.s,
                                   instances[limiters[caller[t].arg.s]])}
                 /\ caller'[t].todo = << >>
          /\ (RegReturnStep(t) /\ NonEmpty(caller[t].arg)) =>
                 /\ returned'.out = caller[t].out
                 /\ Cardinality(caller[t].out) = 1
          /\ (RegReturnStep(t) /\ caller[t].arg = Str(<< >>)) =>
                 {e.key : e \in returned'.out} = DomainsLookedUp
          /\ (RegEnterStep(t) \/ RegMissingStep(t) \/ RegVisitStep(t)
                  \/ RegReturnStep(t))
             => UNCHANGED << limiters, instances >>]_vars

\* get_stats("a.com") has returned the stats of the limiter that admitted
\* an acquire of a URL of a.com.
C17_Witness ==
    /\ returned.op = "get_stats"
    /\ returned.arg = Str(<< "a.com" >>)
    /\ \E p \in served : GetDomain(p[1]) = << "a.com" >>
    /\ \E e \in returned.out :
           /\ returned.out = {e}
           /\ e.key = << "a.com" >>
           /\ ~e.nodata
           /\ e.stats.total_requests >= 1

\* C18: after any sequence of registry acquire calls on URLs, get_stats()
\* returns exactly one item per distinct domain among those URLs, keyed by
\* the domain and holding the snapshot of the domain's limiter; URLs of one
\* domain share one limiter.
C18_StatsOfEveryDomain ==
    /\ [](/\ \A p, q \in served :
                 GetDomain(p[1]) = GetDomain(q[1]) => p[2] = q[2]
          /\ DOMAIN limiters = DomainsLookedUp)
    /\ [][\A t \in RegThreads :
              /\ RegVisitStep(t) =>
                     caller'[t].out =
                         caller[t].out
                         \cup {StatsItem(Head(caller[t].todo),
                                   instances[limiters[Head(caller[t].todo)]])}
              /\ (RegReturnStep(t) /\ caller[t].arg.none) =>
                     /\ returned'.out = caller[t].out
                     /\ {e.key : e \in returned'.out} = DomainsLookedUp
                     /\ Cardinality(returned'.out)
                            = Cardinality(DomainsLookedUp)]_vars

\* get_stats() after two acquire calls on different URLs of one domain: one
\* item, which counts both calls.
C18_Witness ==
    /\ returned.op = "get_stats"
    /\ returned.arg = None
    /\ Cardinality(served) = 2
    /\ \E e \in returned.out :
           /\ returned.out = {e}
           /\ e.key = << "a.com" >>
           /\ ~e.nodata
           /\ e.stats.total_requests + e.stats.rejections = 2

\* ------------------------------------------------- claims on the pipeline

\* The current call is fetch_html, made directly or by run.
Fetching == fetch_fn \in {"fetch_html", "run"}

\* The current call has returned.
FetchDone == fetch_pc = "idle" /\ nfetchcalls > 0

\* C21: with respect_robots true, fetch_html issues a request only after
\* check_robots_txt has allowed the URL, and a disallowed URL yields None
\* with no request issued; with respect_robots false, check_robots_txt is
\* not consulted, so that no step of the call fetches a robots.txt or
\* touches the cache.
C21_RobotsBeforeRequest ==
    /\ [](Fetching =>
            /\ (respect_robots /\ gets # << >>) => robots_answer = "True"
            /\ robots_answer = "False" =>
                  gets = << >> /\ FetchDone /\ result = "None"
            /\ ~respect_robots => robots_answer = "unasked")
    /\ [][(Fetching /\ ~respect_robots /\ nfetchcalls' = nfetchcalls)
            => UNCHANGED << robots_reads, robots_cache >>]_vars

\* A fetch_html that respects robots.txt was refused by it and returned
\* None without a request.
C21_Witness ==
    /\ fetch_fn = "fetch_html"
    /\ respect_robots
    /\ robots_answer = "False"
    /\ FetchDone
    /\ result = "None"
    /\ gets = << >>

\* C22: for each scheme and authority, robots.txt is fetched at most once
\* over any sequence of check_robots_txt calls.
C22_RobotsFetchedOnce == \A b \in Bases : robots_reads[b] <= 1

\* C23: run starts fetch, parse, export in that order and stops at the first
\* empty stage: a run that has returned has started only the fetch and
\* returned None when fetch_html gave no HTML, has started fetch and parse
\* and returned None when the HTML has no items, and has otherwise started
\* all three and returned what the exporter returned.
C23_RunStopsAtFirstEmptyStage ==
    (fetch_fn = "run") =>
        /\ \E n \in 1..3 : stages = SubSeq(<< "fetch", "parse", "export" >>, 1, n)
        /\ FetchDone =>
              IF html = "None" \/ html = ""
              THEN stages = << "fetch" >> /\ result = "None"
              ELSE IF html = "<p>"
              THEN stages = << "fetch", "parse" >> /\ result = "None"
              ELSE /\ stages = << "fetch", "parse", "export" >>
                   /\ result \in ExportOutcomes

\* A run that went through all three stages and returned the exported path.
C23_Witness ==
    /\ fetch_fn = "run"
    /\ FetchDone
    /\ stages = << "fetch", "parse", "export" >>
    /\ html = "<div class=item>"
    /\ result = "path"

\* ---------------------------------------- further claims on the RateLimiter

\* Thread t takes the lock for an acquire and decides: it is rejected,
\* admitted at once, or goes to sleep.
DecisionStep(t) ==
    /\ pc[t] = "enter" /\ op[t] = "acquire" /\ lock = 0
    /\ \/ pc'[t] = "sleep"
       \/ pc'[t] = "idle" /\ ret'[t] \in {"True", "False"}

\* The wait time the deciding thread t has computed.
Decided(t) ==
    IF pc'[t] = "sleep" THEN local'[t].w ELSE log'[Len(log')].w

\* The four lower bounds on the state after the refill and the eviction.
TokenBound ==
    IF Refilled < One
    THEN (One - Refilled) \div config.requests_per_second
    ELSE 0

MinuteBound ==
    IF /\ Len(CleanMinute) >= config.requests_per_minute
       /\ Minute - (now - CleanMinute[1]) > 0
    THEN Minute - (now - CleanMinute[1])
    ELSE 0

HourBound ==
    IF /\ Len(CleanHour) >= config.requests_per_hour
       /\ Hour - (now - CleanHour[1]) > 0
    THEN Hour - (now - CleanHour[1])
    ELSE 0

\* C24: the wait acquire computes is the largest of the token bound, the
\* minute bound, the hour bound and min_delay, all taken on the state after
\* the refill and the eviction.
C24_WaitIsMaxOfFour ==
    [][\A t \in Threads : DecisionStep(t) =>
          /\ Decided(t) \in {TokenBound, MinuteBound, HourBound,
                             config.min_delay}
          /\ Decided(t) >= TokenBound
          /\ Decided(t) >= MinuteBound
          /\ Decided(t) >= HourBound
          /\ Decided(t) >= config.min_delay]_vars

\* A caller sleeps for a wait that is larger than a min_delay that is not 0:
\* two bounds are positive and the larger one was taken.
C24_Witness ==
    \E t \in Threads :
        /\ pc[t] = "sleep"
        /\ config.min_delay > 0
        /\ local[t].w > config.min_delay

\* C25: the minute window never holds more than requests_per_minute entries
\* and the hour window never more than requests_per_hour.
C25_WindowsBounded ==
    /\ Len(requests_minute) <= config.requests_per_minute
    /\ Len(requests_hour) <= config.requests_per_hour

\* A full minute window has taken one more admission than it can hold before
\* any entry was old enough to be evicted.
C25_Witness ==
    /\ config.requests_per_minute >= 1
    /\ Len(requests_minute) = config.requests_per_minute
    /\ nresets = 0
    /\ total_requests > config.requests_per_minute
    /\ now <= Minute

\* C26: expired entries are evicted before the decision: the state a decision
\* leaves has no oldest entry that is more than 60 seconds (minute window) or
\* 3600 seconds (hour window) old.
C26_EvictedBeforeDecision ==
    [][\A t \in Threads : DecisionStep(t) =>
          /\ Len(requests_minute') > 0 => now - requests_minute'[1] <= Minute
          /\ Len(requests_hour') > 0 => now - requests_hour'[1] <= Hour]_vars

\* An admission was decided more than an hour after another one, and the
\* windows, which have room for two entries, hold one: the old entry was
\* evicted from both.
C26_Witness ==
    /\ nresets = 0
    /\ config.requests_per_minute = 2
    /\ config.requests_per_hour = 2
    /\ Len(requests_minute) = 1
    /\ Len(requests_hour) = 1
    /\ \E i, j \in Entries :
          /\ log[i].r = "True"
          /\ log[j].r = "True"
          /\ log[j].at > log[i].at + Hour

\* C27: with a positive rate, a burst of at least 1 and window limits of at
\* least 1, a blocking acquire that has the lock returns True and never
\* False; it is suspended at most once, holding the lock, for its computed
\* wait, and the suspended caller eventually returns True.
C27_BlockingAcquireReturnsTrue ==
    /\ [](\A i \in Entries : log[i].b => log[i].r = "True")
    /\ [](\A t \in Threads : pc[t] = "sleep" =>
            /\ lock = t
            /\ local[t].w > 0
            /\ wakeAt[t] = last_refill + local[t].w)
    /\ [][\A t \in Threads : (pc[t] = "sleep" /\ pc'[t] # "sleep") =>
            /\ pc'[t] = "idle"
            /\ ret'[t] = "True"
            /\ now >= last_refill + local[t].w]_vars
    /\ \A t \in Threads :
          (pc[t] = "sleep") ~> (pc[t] = "idle" /\ ret[t] = "True")

\* A blocking acquire has slept for a positive wait and returned True.
C27_Witness ==
    \E i \in Entries : log[i].b /\ log[i].w > 0 /\ log[i].r = "True"

\* Registry thread t cannot go on: it sleeps in a delegated acquire, or it
\* is in get_stats and the limiter it has to visit next has its lock held.
Suspended(t) ==
    \/ caller[t].pc = "sleep"
    \/ /\ caller[t].pc = "visit"
       /\ caller[t].todo # << >>
       /\ instances[limiters[Head(caller[t].todo)]].lock # 0

\* C28: the registry lock is never held by a caller that is blocked or
\* suspended.
C28_RegistryLockHolderRuns ==
    \A t \in RegThreads : registry_lock = t => ~Suspended(t)

\* ------------------------------------------------ claims on the retry loops

\* An attempt that succeeded: a response whose status is no error status.
Succeeded(o) == o[1] = "response" /\ o[2] < 400

\* A failure fetch_html retries after: a Timeout, a ConnectionError, or an
\* HTTP error whose status is not in 400-499.
Retryable(o) ==
    \/ o[1] \in {"Timeout", "ConnectionError"}
    \/ o[1] = "response" /\ o[2] >= 500

\* C29: a fetch_html call makes at most retries requests; every request but
\* the last failed in a way that is retried; the call returns the response
\* text when the last request succeeded and None otherwise, and it stops on
\* a failure that is retried only when that was attempt number retries.
C29_FetchRetries ==
    (fetch_fn = "fetch_html") =>
        /\ Len(gets) <= fetch_retries
        /\ \A i \in 1..(Len(gets) - 1) : Retryable(gets[i])
        /\ fetch_pc = "backoff" =>
              /\ gets # << >>
              /\ Retryable(gets[Len(gets)])
              /\ Len(gets) < fetch_retries
        /\ fetch_pc = "get" =>
              \A i \in 1..Len(gets) : Retryable(gets[i])
        /\ FetchDone =>
              IF gets = << >> THEN result = "None"
              ELSE IF Succeeded(gets[Len(gets)]) THEN result \in Texts
              ELSE /\ result = "None"
                   /\ Retryable(gets[Len(gets)]) => Len(gets) = fetch_retries

\* A fetch_html call with retries = 3 has returned the page of its third
\* request, after a Timeout and a server error.
C29_Witness ==
    /\ fetch_fn = "fetch_html"
    /\ FetchDone
    /\ fetch_retries = 3
    /\ gets = << << "Timeout", 0 >>, << "response", 500 >>,
                 << "response", 200 >> >>
    /\ result = "<p>"

\* The tasks whose request is in flight.
InFlight == {t \in Tasks : task_pc[t] = "request"}

\* C30: the requests of one AsyncScraper that are in flight at the same time
\* are at most max_concurrent, and a task that sleeps for the inter-request
\* delay or the retry backoff holds no semaphore slot: the slots taken are
\* exactly those of the requests in flight.
C30_ConcurrencyBounded ==
    constructed =>
        /\ Cardinality(InFlight) <= max_concurrent
        /\ \A t \in Tasks :
              task_pc[t] \in {"delay", "backoff"} => ~in_semaphore[t]
        /\ semaphore = max_concurrent - Cardinality(InFlight)
        /\ \A t \in Tasks : in_semaphore[t] => t \in InFlight

\* With max_concurrent = 1 one request is in flight, a second task sleeps
\* for the inter-request delay, and a third waits for the slot.
C30_Witness ==
    /\ constructed
    /\ max_concurrent = 1
    /\ semaphore = 0
    /\ \E t, u, v \in Tasks :
          /\ task_pc[t] = "request"
          /\ task_pc[u] = "delay"
          /\ task_pc[v] = "start" /\ task_attempt[v] < retries

\* The last session.get of task t was answered with status 200.
Answered200(t) == task_last[t] = << "response", 200 >>

\* C31: fetch issues at most retries GET attempts; it stops at the first
\* attempt answered with status 200 and returns success=True; after any
\* other answer or exception it goes on to the next attempt, and it returns
\* success=False ("Failed after retries") only when retries attempts have
\* failed.
C31_AsyncFetchRetries ==
    constructed => \A t \in Tasks :
        /\ task_gets[t] <= retries
        /\ task_result[t] \in {"none", "True", "False"}
        /\ task_pc[t] = "done" <=> task_result[t] # "none"
        /\ Answered200(t) <=> task_result[t] = "True"
        /\ task_result[t] = "False" => task_gets[t] = retries
        /\ task_pc[t] \in {"delay", "backoff"} =>
              /\ task_gets[t] >= 1
              /\ ~Answered200(t)
        /\ task_pc[t] = "backoff" => task_gets[t] < retries
        /\ task_pc[t] = "request" => task_gets[t] = task_attempt[t] + 1
        /\ task_pc[t] = "start" => task_gets[t] = task_attempt[t]

\* With retries = 2, one fetch has succeeded at its second attempt and
\* another has failed twice and returned success=False.
C31_Witness ==
    /\ constructed
    /\ retries = 2
    /\ \E t, u \in Tasks :
          /\ task_gets[t] = 2 /\ task_result[t] = "True"
          /\ task_gets[u] = 2 /\ task_result[u] = "False"

\* ------------------------------------ last claims on the RateLimiter

\* C32: on a limiter whose min_delay is greater than 0, every
\* acquire(wait=False) returns False.
C32_MinDelayRejectsNonBlocking ==
    config.min_delay > 0 =>
        \A i \in Entries : ~log[i].b => log[i].r = "False"

\* The acquire of thread t returns r in this step.
AcquireReturns(t, r) ==
    /\ op[t] = "acquire"
    /\ pc[t] \in {"enter", "sleep"}
    /\ pc'[t] = "idle"
    /\ ret'[t] = r

\* The token count after the refill of this step.
AfterRefill ==
    Min(config.burst_size * One,
        tokens + (now - last_refill) * config.requests_per_second)

\* Window q2 is window q, less some of its oldest entries, plus one new
\* timestamp.
OneAppended(q, q2) ==
    /\ Len(q2) >= 1
    /\ q2[Len(q2)] = now
    /\ \E k \in 0..Len(q) :
          SubSeq(q2, 1, Len(q2) - 1) = SubSeq(q, k + 1, Len(q))

Rejected == {i \in Entries : log[i].r = "False"}

\* What one step does to the counters, the bucket and the windows.
C33_Step ==
    /\ \A t \in Threads :
          /\ AcquireReturns(t, "True") =>
                /\ total_requests' = total_requests + 1
                /\ rejections' = rejections
                /\ tokens' = AfterRefill - One
                /\ OneAppended(requests_minute, requests_minute')
                /\ OneAppended(requests_hour, requests_hour')
          /\ AcquireReturns(t, "False") =>
                /\ rejections' = rejections + 1
                /\ total_requests' = total_requests
          /\ ResetStep(t) => total_requests' = 0 /\ rejections' = 0
    /\ (\A u \in Threads : /\ ~AcquireReturns(u, "True")
                           /\ ~AcquireReturns(u, "False")
                           /\ ~ResetStep(u))
          => UNCHANGED << total_requests, rejections >>

\* C33: total_requests counts the acquire calls that returned True and
\* rejections those that returned False since construction or the last
\* reset: an acquire that returns True adds 1 to total_requests, takes one
\* token and appends one timestamp to each window, one that returns False
\* adds 1 to rejections, reset sets both counters to 0, and no other step
\* changes them.
C33_CountersExact ==
    /\ [](nresets = 0 =>
            /\ total_requests = Cardinality(Admitted)
            /\ rejections = Cardinality(Rejected))
    /\ [][C33_Step]_vars

\* After a reset, one acquire has returned True and one False, and no call
\* is in progress.
C33_Witness ==
    /\ nresets = 1
    /\ total_requests = 1
    /\ rejections = 1
    /\ \A t \in Threads : pc[t] = "idle"

\* The waits of the calls that returned True.
AdmittedWaits == SumWaits(SelectSeq(log, LAMBDA e : e.r = "True"))

\* C34: a snapshot returned by get_stats() is never torn: it is taken while
\* no acquire is between its wait and its admission, a total_wait_time above
\* 0 comes with a total_requests above 0, and, before any reset,
\* total_requests is the number of admissions and total_wait_time the sum of
\* the waits of exactly those admissions.
C34_SnapshotNotTorn ==
    [][\A t \in Threads :
          StatsStep(t) =>
              /\ \A u \in Threads : pc[u] # "sleep"
              /\ snap'[t].total_wait_time > 0 => snap'[t].total_requests > 0
              /\ nresets = 0 =>
                    /\ snap'[t].total_requests = Cardinality(Admitted)
                    /\ snap'[t].total_wait_time = AdmittedWaits]_vars

\* A snapshot taken after two admissions, one of which waited.
C34_Witness ==
    \E t \in Threads :
        /\ ret[t] = "dict"
        /\ snap[t].total_wait_time > 0
        /\ snap[t].total_requests = 2
        /\ nresets = 0
        /\ \E i \in Admitted : log[i].w = 0

\* ------------------------------------------- claims on the locking discipline

\* Registry thread t holds the lock of some limiter.
HoldsLimiterLock(t) == \E i \in 1..Len(instances) : instances[i].lock = t

\* The thread that holds the lock registry thread t is waiting for, 0 when t
\* waits for no lock or the lock it wants is free.
WaitsFor(t) ==
    CASE caller[t].pc = "lock" -> registry_lock
      [] caller[t].pc = "delegate" -> instances[Target(t)].lock
      [] caller[t].pc = "visit" /\ caller[t].todo # << >> ->
             instances[limiters[Head(caller[t].todo)]].lock
      [] OTHER -> 0

\* C35: the locking discipline has no deadlock: a caller that holds a
\* limiter's lock requests no lock at all (so the registry lock is never
\* requested while a limiter lock is held, and a limiter lock is only ever
\* requested with no lock or the registry lock in hand), the registry lock
\* is held only inside get_stats, and there is no set of callers of which
\* each waits for a lock held by another of the set.
C35_NoDeadlock ==
    /\ \A t \in RegThreads :
          /\ caller[t].pc = "lock" => ~HoldsLimiterLock(t)
          /\ HoldsLimiterLock(t) => caller[t].pc = "sleep" /\ WaitsFor(t) = 0
          /\ registry_lock = t => caller[t].pc = "visit"
    /\ \A S \in SUBSET RegThreads :
          S # {} => \E t \in S : WaitsFor(t) \notin S

\* A chain of waiting callers that is no cycle: t sleeps holding a limiter's
\* lock, u holds the registry lock and waits for that limiter, v waits for
\* the registry lock.
C35_Witness ==
    \E t, u, v \in RegThreads :
        /\ caller[t].pc = "sleep"
        /\ registry_lock = u
        /\ WaitsFor(u) = t
        /\ WaitsFor(v) = u

====
